---- MODULE Spec2Model ----
(***************************************************************************)
(* A model of the bitflag-attr flags value: the bits primitive, the flag   *)
(* table of a flags type, the value algebra, the decomposition iterators   *)
(* (IterNames, Iter) and the text formatter / parser built on them.        *)
(***************************************************************************)
EXTENDS Integers, Sequences, FiniteSets, TLC

VARIABLES
    ty_name,    \* the flags type in use (its table, extra bits and primitive)
    pc,         \* what the program holds: "start", "value", "iter_names", "iter", "text", "parsed",
                \* "called"
    val,        \* the flags value (self.0), as the bit pattern of the primitive
    index,      \* IterNames.index
    source,     \* IterNames.source
    remaining,  \* IterNames.remaining
    done,       \* Iter.done
    ret,        \* what the last call returned
    log,        \* the items returned so far by next, in order
    at,         \* for each item of log, IterNames.index when it was returned
    text,       \* the text written by a formatter, or given as parser input
    origin,     \* where text comes from: "retain", "truncate", "strict", "input"
    parser,     \* which parser produced res
    res,        \* the parser's Result
    call,       \* the constructor, method or operator applied to the value, if any
    arg,        \* its argument: raw bits, or the bits of the other flags value
    peer        \* a second flags value of the same type and the Iter made from it

vars == <<ty_name, pc, val, index, source, remaining, done, ret, log, at, text, origin, parser, res,
          call, arg, peer>>

-----------------------------------------------------------------------------
(* The bits primitive: u8 / i8, held as its two's complement bit pattern.  *)

Width == 8

Modulus == 2 ^ Width

Bits == 0 .. (Modulus - 1)

RECURSIVE BitAndW(_, _, _)
BitAndW(a, b, n) ==
    IF n = 0 THEN 0
    ELSE (IF a % 2 = 1 /\ b % 2 = 1 THEN 1 ELSE 0) + 2 * BitAndW(a \div 2, b \div 2, n - 1)

RECURSIVE BitOrW(_, _, _)
BitOrW(a, b, n) ==
    IF n = 0 THEN 0
    ELSE (IF a % 2 = 1 \/ b % 2 = 1 THEN 1 ELSE 0) + 2 * BitOrW(a \div 2, b \div 2, n - 1)

RECURSIVE BitXorW(_, _, _)
BitXorW(a, b, n) ==
    IF n = 0 THEN 0
    ELSE (IF (a % 2) # (b % 2) THEN 1 ELSE 0) + 2 * BitXorW(a \div 2, b \div 2, n - 1)

\* `a & b`, `a | b`, `a ^ b`, `!a` of the primitive
BitAnd(a, b) == BitAndW(a, b, Width)

BitOr(a, b) == BitOrW(a, b, Width)

BitXor(a, b) == BitXorW(a, b, Width)

BitNot(a) == (Modulus - 1) - a

-----------------------------------------------------------------------------
(* Flags types: the table KNOWN_FLAGS in declaration order, the attributes *)
(* that give the extra valid bits, and the primitive.  A name is the       *)
(* sequence of its characters.                                             *)

Flag(name, bits) == [name |-> name, bits |-> bits]

NoAttr == -1

TestFlags ==
    [ty |-> "u8", non_exhaustive |-> FALSE, extra_valid_bits |-> NoAttr,
     flags |-> << Flag(<<"A">>, 1), Flag(<<"B">>, 2), Flag(<<"C">>, 4),
                  Flag(<<"A", "B", "C">>, 7) >>]

TestFlagsInvert ==
    [ty |-> "u8", non_exhaustive |-> FALSE, extra_valid_bits |-> NoAttr,
     flags |-> << Flag(<<"A", "B", "C">>, 7), Flag(<<"A">>, 1), Flag(<<"B">>, 2),
                  Flag(<<"C">>, 4) >>]

TestZero ==
    [ty |-> "u8", non_exhaustive |-> FALSE, extra_valid_bits |-> NoAttr,
     flags |-> << Flag(<<"Z", "E", "R", "O">>, 0) >>]

TestZeroOne ==
    [ty |-> "u8", non_exhaustive |-> FALSE, extra_valid_bits |-> NoAttr,
     flags |-> << Flag(<<"Z", "E", "R", "O">>, 0), Flag(<<"O", "N", "E">>, 1) >>]

TestEmpty ==
    [ty |-> "u8", non_exhaustive |-> FALSE, extra_valid_bits |-> NoAttr,
     flags |-> << >>]

TestOverlapping ==
    [ty |-> "u8", non_exhaustive |-> FALSE, extra_valid_bits |-> NoAttr,
     flags |-> << Flag(<<"A", "B">>, 3), Flag(<<"B", "C">>, 6) >>]

TestOverlappingFull ==
    [ty |-> "u8", non_exhaustive |-> FALSE, extra_valid_bits |-> NoAttr,
     flags |-> << Flag(<<"A">>, 1), Flag(<<"B">>, 1), Flag(<<"C">>, 1),
                  Flag(<<"D">>, 2) >>]

TestExternal ==
    [ty |-> "u8", non_exhaustive |-> TRUE, extra_valid_bits |-> NoAttr,
     flags |-> << Flag(<<"A">>, 1), Flag(<<"B">>, 2), Flag(<<"C">>, 4),
                  Flag(<<"A", "B", "C">>, 7) >>]

TestExternalFull ==
    [ty |-> "u8", non_exhaustive |-> TRUE, extra_valid_bits |-> NoAttr,
     flags |-> << >>]

\* TestFlags of tests/api.rs, over the primitive of the model: F1 = 1 << 0,
\* F2 = 1 << 1, F3 = 1 << 3, F4 = 1 << 4, F1_3 = F1 | F3
ApiTestFlags ==
    [ty |-> "u8", non_exhaustive |-> FALSE, extra_valid_bits |-> NoAttr,
     flags |-> << Flag(<<"F", "1">>, 1), Flag(<<"F", "2">>, 2), Flag(<<"F", "3">>, 8),
                  Flag(<<"F", "4">>, 16), Flag(<<"F", "1", "_", "3">>, 9) >>]

\* SimpleFlag of examples/iter.rs, over the primitive of the model: an explicit
\* extra_valid_bits mask under #[non_exhaustive]; Flag1 = 1 << 4, Flag2 = 1 << 7,
\* Flag3 = 1, Flag4 = Flag1 | Flag2, extra_valid_bits = 0b01001111
SimpleFlag ==
    [ty |-> "u8", non_exhaustive |-> TRUE, extra_valid_bits |-> 79,
     flags |-> << Flag(<<"F", "l", "a", "g", "1">>, 16), Flag(<<"F", "l", "a", "g", "2">>, 128),
                  Flag(<<"F", "l", "a", "g", "3">>, 1),
                  Flag(<<"F", "l", "a", "g", "4">>, 144) >>]

\* the same enums over the signed primitive of the same width
SignedFlags == [TestFlags EXCEPT !.ty = "i8"]

SignedExternal == [TestExternal EXCEPT !.ty = "i8"]

TypeNames ==
    {"TestFlags", "TestFlagsInvert", "TestZero", "TestZeroOne", "TestEmpty",
     "TestOverlapping", "TestOverlappingFull", "TestExternal", "TestExternalFull",
     "ApiTestFlags", "SimpleFlag", "SignedFlags", "SignedExternal"}

Type(n) ==
    CASE n = "TestFlags" -> TestFlags
      [] n = "TestFlagsInvert" -> TestFlagsInvert
      [] n = "TestZero" -> TestZero
      [] n = "TestZeroOne" -> TestZeroOne
      [] n = "TestEmpty" -> TestEmpty
      [] n = "TestOverlapping" -> TestOverlapping
      [] n = "TestOverlappingFull" -> TestOverlappingFull
      [] n = "TestExternal" -> TestExternal
      [] n = "TestExternalFull" -> TestExternalFull
      [] n = "ApiTestFlags" -> ApiTestFlags
      [] n = "SimpleFlag" -> SimpleFlag
      [] n = "SignedFlags" -> SignedFlags
      [] n = "SignedExternal" -> SignedExternal

KNOWN_FLAGS(T) == T.flags

is_signed(T) == T.ty = "i8"

\* Bitflag::parse: an extra_valid_bits attribute, else !0 under #[non_exhaustive]
custom_known_bits(T) ==
    IF T.extra_valid_bits # NoAttr THEN T.extra_valid_bits
    ELSE IF T.non_exhaustive THEN BitNot(0)
    ELSE NoAttr

\* the message of the error for a misplaced #[default] (it is the text of the
\* source without its backquotes)
DefaultWithoutDerive == "default attribute without #[derive(Default)]"

\* Bitflag::parse, for the derive list and the #[default] helper attribute:
\* derives is the set of traits in #[derive(...)], marked the index of the
\* variant that carries #[default] (0 when none does)
Bitflag_parse(derives, marked) ==
    LET impl_debug == "Debug" \in derives
        impl_default == "Default" \in derives
    IN  IF marked # 0 /\ ~impl_debug
        THEN [ok |-> FALSE, err |-> DefaultWithoutDerive, impl_debug |-> impl_debug,
              impl_default |-> impl_default, default_value |-> 0]
        ELSE [ok |-> TRUE, err |-> "none", impl_debug |-> impl_debug,
              impl_default |-> impl_default, default_value |-> marked]

\* the generated Default::default(): the marked flag, else the default of the
\* primitive
default_impl(T, parsed) ==
    IF parsed.default_value # 0 THEN KNOWN_FLAGS(T)[parsed.default_value].bits ELSE 0

-----------------------------------------------------------------------------
(* The value algebra generated for a flags type.                           *)

empty == 0

is_empty(v) == v = 0

all_bits == BitNot(0)

RECURSIVE all_named_from(_, _)
all_named_from(flags, i) ==
    IF i > Len(flags) THEN 0 ELSE BitOr(flags[i].bits, all_named_from(flags, i + 1))

all_named(T) == all_named_from(KNOWN_FLAGS(T), 1)

\* all() that leaves the extra valid bits out
all_without_extra(T) == all_named(T)

all(T) ==
    IF custom_known_bits(T) # NoAttr
    THEN BitOr(all_named(T), custom_known_bits(T))
    ELSE all_named(T)

\* Flags::EXTRA_VALID_BITS: the custom known bits, else the union of the named flags
EXTRA_VALID_BITS(T) ==
    IF custom_known_bits(T) # NoAttr THEN custom_known_bits(T) ELSE all_named(T)

from_bits_retain(bits) == bits

from_bits_truncate(T, bits) == BitAnd(bits, all(T))

truncated(T, v) == BitAnd(v, all(T))

\* intersects that takes any flag to intersect a non-empty value
intersects_any(v, other) == BitOr(v, other) # 0

\* intersects that tests containment
intersects_as_contains(v, other) == BitAnd(v, other) = other

intersects(v, other) == BitAnd(v, other) # empty

\* contains that is satisfied by a flag only partly within the value
contains_partly(v, other) == BitAnd(v, other) # 0 \/ other = 0

contains(v, other) == BitAnd(v, other) = other

not(v) == BitNot(v)

and(v, other) == BitAnd(v, other)

or(v, other) == BitOr(v, other)

xor(v, other) == BitXor(v, other)

union(v, other) == or(v, other)

difference(v, other) == and(v, not(other))

\* set that overwrites the value with other
set_overwrite(v, other) == other

\* unset that removes nothing
unset_nothing(v, other) == v

\* the mutators, as the value they leave in self
set(v, other) == or(v, other)

unset(v, other) == difference(v, other)

RECURSIVE from_flag_name_at(_, _, _)
from_flag_name_at(flags, name, i) ==
    IF i > Len(flags) THEN [some |-> FALSE, bits |-> 0]
    ELSE IF flags[i].name = name THEN [some |-> TRUE, bits |-> flags[i].bits]
    ELSE from_flag_name_at(flags, name, i + 1)

\* match name { "A" => Some(Self::A), ..., _ => None }: the first arm that matches
from_flag_name(T, name) == from_flag_name_at(KNOWN_FLAGS(T), name, 1)

\* bits(): the stored value
bits_of(v) == v

\* from_bits that takes every raw value
from_bits_unchecked(T, raw) == [some |-> TRUE, bits |-> raw]

\* from_bits: Some(Self(bits)) when truncating changes nothing, else None
from_bits(T, raw) ==
    LET t == from_bits_truncate(T, raw)
    IN  IF t = raw THEN [some |-> TRUE, bits |-> raw] ELSE [some |-> FALSE, bits |-> 0]

\* is_all that asks for equality with all()
is_all_exactly(T, v) == v = all(T)

is_all(T, v) == BitOr(all(T), v) = v

contains_unknown_bits(T, v) == BitAnd(all(T), v) # v

\* complement that does not truncate
complement_untruncated(T, v) == not(v)

complement(T, v) == truncated(T, not(v))

\* the `!` operator that is the plain bitwise NOT
ops_Not_untruncated(T, v) == not(v)

\* impl Not: `!v`
ops_Not(T, v) == complement(T, v)

\* impl BitAnd: `v & rhs`
ops_BitAnd(v, rhs) == and(v, rhs)

\* the `-` operator that goes through the `!` operator
ops_Sub_over_Not(v, rhs) == ops_BitAnd(v, ops_Not(Type(ty_name), rhs))

\* impl Sub: `v - rhs`
ops_Sub(v, rhs) == difference(v, rhs)

\* impl SubAssign: `v -= rhs`, as the value it leaves in v
ops_SubAssign(v, rhs) == unset(v, rhs)

-----------------------------------------------------------------------------
(* The decomposition iterators.  An IterNames is [index, source,           *)
(* remaining] over the type's table; an item is Some((name, flag)) or None.*)

None == [some |-> FALSE, name |-> << >>, bits |-> 0]

Some(name, bits) == [some |-> TRUE, name |-> name, bits |-> bits]

\* the constructor given every bit as the remaining bits
IterNames_new_all_remaining(v) == [index |-> 0, source |-> v, remaining |-> BitNot(0)]

\* IterNames::__private_const_new(flags, source, remaining), called by
\* iter_names() and iter() with (KNOWN_FLAGS, *self, *self)
IterNames_new(v) == [index |-> 0, source |-> v, remaining |-> v]

\* IterNames::next that yields a contained flag without moving past it and
\* without clearing its bits
IterNames_next_stuck(flags, it) ==
    IF it.index < Len(flags) /\ ~is_empty(it.remaining)
    THEN LET flag == flags[it.index + 1]
         IN  IF contains(it.source, flag.bits) /\ intersects(it.remaining, flag.bits)
             THEN [it |-> it, item |-> Some(flag.name, from_bits_retain(flag.bits))]
             ELSE [it |-> [it EXCEPT !.index = Len(flags)], item |-> None]
    ELSE [it |-> it, item |-> None]

RECURSIVE IterNames_next_any_overlap(_, _)
\* IterNames::next that yields every flag sharing a bit with the remaining bits,
\* contained in the source or not
IterNames_next_any_overlap(flags, it) ==
    IF it.index < Len(flags)
    THEN IF is_empty(it.remaining)
         THEN [it |-> it, item |-> None]
         ELSE LET flag == flags[it.index + 1]
                  it1 == [it EXCEPT !.index = @ + 1]
              IN  IF intersects(it1.remaining, flag.bits)
                  THEN [it |-> [it1 EXCEPT !.remaining = unset(@, flag.bits)],
                        item |-> Some(flag.name, from_bits_retain(flag.bits))]
                  ELSE IterNames_next_any_overlap(flags, it1)
    ELSE [it |-> it, item |-> None]

\* IterNames::next that ends as soon as the flag at index shares no bit with
\* the remaining bits
IterNames_next_early_end(flags, it) ==
    IF it.index < Len(flags)
    THEN LET flag == flags[it.index + 1]
             it1 == [it EXCEPT !.index = @ + 1]
         IN  IF ~intersects(it.remaining, flag.bits)
             THEN [it |-> it, item |-> None]
             ELSE IF contains(it1.source, flag.bits)
                  THEN [it |-> [it1 EXCEPT !.remaining = unset(@, flag.bits)],
                        item |-> Some(flag.name, from_bits_retain(flag.bits))]
                  ELSE [it |-> it1, item |-> None]
    ELSE [it |-> it, item |-> None]

RECURSIVE IterNames_next_every_contained(_, _)
\* IterNames::next that yields every flag the source contains, whether or not
\* one of its bits is still remaining
IterNames_next_every_contained(flags, it) ==
    IF it.index < Len(flags)
    THEN IF is_empty(it.remaining)
         THEN [it |-> it, item |-> None]
         ELSE LET flag == flags[it.index + 1]
                  it1 == [it EXCEPT !.index = @ + 1]
              IN  IF contains(it1.source, flag.bits)
                  THEN [it |-> [it1 EXCEPT !.remaining = unset(@, flag.bits)],
                        item |-> Some(flag.name, from_bits_retain(flag.bits))]
                  ELSE IterNames_next_every_contained(flags, it1)
    ELSE [it |-> it, item |-> None]

RECURSIVE IterNames_next(_, _)
IterNames_next(flags, it) ==
    IF it.index < Len(flags)
    THEN IF is_empty(it.remaining)
         THEN [it |-> it, item |-> None]
         ELSE LET flag == flags[it.index + 1]
                  it1 == [it EXCEPT !.index = @ + 1]
              IN  IF contains(it1.source, flag.bits) /\ intersects(it1.remaining, flag.bits)
                  THEN [it |-> [it1 EXCEPT !.remaining = unset(@, flag.bits)],
                        item |-> Some(flag.name, from_bits_retain(flag.bits))]
                  ELSE IterNames_next(flags, it1)
    ELSE [it |-> it, item |-> None]

\* Iter::next that forgets the final value of the leftover bits
Iter_next_no_remainder(flags, iter) ==
    LET r == IterNames_next(flags, iter.inner)
    IN  IF r.item.some
        THEN [iter |-> [inner |-> r.it, done |-> iter.done],
              item |-> Some(<< >>, r.item.bits)]
        ELSE [iter |-> [inner |-> r.it, done |-> TRUE], item |-> None]

\* Iter::next that keeps its position in the table in one place for every
\* iterator over that table
Iter_next_shared_cursor(flags, iter) ==
    LET r == IterNames_next(flags, [iter.inner EXCEPT !.index = index])
    IN  IF r.item.some
        THEN [iter |-> [inner |-> r.it, done |-> iter.done],
              item |-> Some(<< >>, r.item.bits)]
        ELSE IF ~iter.done
             THEN [iter |-> [inner |-> r.it, done |-> TRUE],
                   item |-> IF ~is_empty(r.it.remaining)
                            THEN Some(<< >>, r.it.remaining)
                            ELSE None]
             ELSE [iter |-> [inner |-> r.it, done |-> iter.done], item |-> None]

\* Iter::next that gives the leftover bits whenever the inner iterator is at
\* its end, done or not
Iter_next_remainder_again(flags, iter) ==
    LET r == IterNames_next(flags, iter.inner)
    IN  IF r.item.some
        THEN [iter |-> [inner |-> r.it, done |-> iter.done],
              item |-> Some(<< >>, r.item.bits)]
        ELSE [iter |-> [inner |-> r.it, done |-> TRUE],
              item |-> IF ~is_empty(r.it.remaining)
                       THEN Some(<< >>, r.it.remaining)
                       ELSE None]

\* Iter::new(flags): the IterNames over a copy of the value, not done
Iter_new(v) == [inner |-> IterNames_new(v), done |-> FALSE]

\* Iter::next on [inner |-> IterNames, done |-> BOOLEAN]; its items carry no name
Iter_next(flags, iter) ==
    LET r == IterNames_next(flags, iter.inner)
    IN  IF r.item.some
        THEN [iter |-> [inner |-> r.it, done |-> iter.done],
              item |-> Some(<< >>, r.item.bits)]
        ELSE IF ~iter.done
             THEN [iter |-> [inner |-> r.it, done |-> TRUE],
                   item |-> IF ~is_empty(r.it.remaining)
                            THEN Some(<< >>, r.it.remaining)
                            ELSE None]
             ELSE [iter |-> [inner |-> r.it, done |-> iter.done], item |-> None]

RECURSIVE extend(_, _, _)
\* Extend::extend: for item in iter { self.set(item) }
extend(self, items, i) ==
    IF i > Len(items) THEN self ELSE extend(set(self, items[i].bits), items, i + 1)

\* FromIterator::from_iter over the items an iterator gave
from_iter(items) == extend(empty, items, 1)

RECURSIVE iter_names_all(_, _)
\* for (name, flag) in f.iter_names(): every item, up to end-of-sequence
iter_names_all(flags, it) ==
    LET r == IterNames_next(flags, it)
    IN  IF r.item.some THEN << r.item >> \o iter_names_all(flags, r.it) ELSE << >>

-----------------------------------------------------------------------------
(* Text.  A text is the sequence of its characters.                        *)

HexUpper == <<"0", "1", "2", "3", "4", "5", "6", "7", "8", "9", "A", "B", "C", "D", "E", "F">>

HexLower == <<"0", "1", "2", "3", "4", "5", "6", "7", "8", "9", "a", "b", "c", "d", "e", "f">>

RECURSIVE LowerHex(_)
\* {:x}: the digits in lower case
LowerHex(n) ==
    IF n < 16 THEN << HexLower[n + 1] >>
    ELSE LowerHex(n \div 16) \o << HexLower[(n % 16) + 1] >>

RECURSIVE UpperHex(_)
\* {:X} of the primitive: the digits of its bit pattern (two's complement for
\* a signed primitive), most significant first, not padded
UpperHex(n) ==
    IF n < 16 THEN << HexUpper[n + 1] >>
    ELSE UpperHex(n \div 16) \o << HexUpper[(n % 16) + 1] >>

\* {:#X}
AltUpperHex(n) == <<"0", "x">> \o UpperHex(n)

Sep == <<" ", "|", " ">>

RECURSIVE write_names(_, _, _, _)
\* for (name, _) in &mut iter { if !first { " | " }; first = false; name }
write_names(flags, it, first, out) ==
    LET r == IterNames_next(flags, it)
    IN  IF r.item.some
        THEN write_names(flags, r.it, FALSE,
                         (IF ~first THEN out \o Sep ELSE out) \o r.item.name)
        ELSE [it |-> r.it, first |-> first, out |-> out]

to_writer(T, v) ==
    LET w == write_names(KNOWN_FLAGS(T), IterNames_new(v), TRUE, << >>)
        rem == w.it.remaining
    IN  IF ~is_empty(rem)
        THEN (IF ~w.first THEN w.out \o Sep ELSE w.out) \o AltUpperHex(rem)
        ELSE w.out

\* to_writer_truncate that writes the value as it is
to_writer_truncate_retain(T, v) == to_writer(T, v)

to_writer_truncate(T, v) == to_writer(T, truncated(T, v))

\* to_writer_strict that keeps the formatter's hex suffix
to_writer_strict_with_hex(T, v) == to_writer(T, v)

to_writer_strict(T, v) ==
    write_names(KNOWN_FLAGS(T), IterNames_new(v), TRUE, << >>).out

\* char::is_whitespace, for the characters the model writes
is_whitespace(c) == c \in {" ", "\t", "\n", "\r"}

RECURSIVE trim_start(_)
trim_start(s) ==
    IF s # << >> /\ is_whitespace(Head(s)) THEN trim_start(Tail(s)) ELSE s

RECURSIVE trim_end(_)
trim_end(s) ==
    IF s # << >> /\ is_whitespace(s[Len(s)])
    THEN trim_end(SubSeq(s, 1, Len(s) - 1))
    ELSE s

\* trim that removes nothing
trim_nothing(s) == s

trim(s) == trim_end(trim_start(s))

RECURSIVE split_from(_, _, _)
\* str::split('|'): the pieces between the bars, empty pieces included
split_from(s, i, piece) ==
    IF i > Len(s) THEN << piece >>
    ELSE IF s[i] = "|" THEN << piece >> \o split_from(s, i + 1, << >>)
    ELSE split_from(s, i + 1, Append(piece, s[i]))

split(s) == split_from(s, 1, << >>)

\* a prefix test that knows the upper case prefix only
starts_with_upper_0X(s) == Len(s) >= 2 /\ s[1] = "0" /\ s[2] = "X"

starts_with_0x(s) == Len(s) >= 2 /\ s[1] = "0" /\ s[2] = "x"

\* strip_prefix("0x") of a segment that starts with it
strip_prefix_0x(s) == SubSeq(s, 3, Len(s))

\* char::to_digit(16), or -1 for None
to_digit(c) ==
    IF \E i \in 1..16 : HexUpper[i] = c THEN (CHOOSE i \in 1..16 : HexUpper[i] = c) - 1
    ELSE IF \E i \in 1..16 : HexLower[i] = c THEN (CHOOSE i \in 1..16 : HexLower[i] = c) - 1
    ELSE -1

int_max(T) == IF is_signed(T) THEN (Modulus \div 2) - 1 ELSE Modulus - 1

int_min(T) == IF is_signed(T) THEN -(Modulus \div 2) ELSE 0

RECURSIVE radix_digits(_, _, _, _, _)
\* the digit loop of from_str_radix: checked_mul(16) then checked_add / checked_sub
radix_digits(T, s, i, is_positive, acc) ==
    IF i > Len(s) THEN [ok |-> TRUE, value |-> acc]
    ELSE LET d == to_digit(s[i])
             next == IF is_positive THEN acc * 16 + d ELSE acc * 16 - d
         IN  IF d = -1 THEN [ok |-> FALSE, value |-> 0]
             ELSE IF next > int_max(T) \/ next < int_min(T) THEN [ok |-> FALSE, value |-> 0]
             ELSE radix_digits(T, s, i + 1, is_positive, next)

\* from_str_radix that takes every character for a digit
from_str_radix_lenient(T, s) ==
    IF s = << >> THEN [ok |-> FALSE, value |-> 0]
    ELSE [ok |-> TRUE, value |-> IF to_digit(s[Len(s)]) = -1 THEN 0 ELSE to_digit(s[Len(s)])]

\* <primitive>::from_str_radix(s, 16): an optional sign ('-' for a signed
\* primitive only), then digits; Empty, InvalidDigit, PosOverflow and
\* NegOverflow are all Err.  An Ok value is given as its bit pattern.
from_str_radix(T, s) ==
    IF s = << >> THEN [ok |-> FALSE, value |-> 0]
    ELSE IF Head(s) \in {"+", "-"} /\ Tail(s) = << >> THEN [ok |-> FALSE, value |-> 0]
    ELSE LET r == IF Head(s) = "+" THEN radix_digits(T, Tail(s), 1, TRUE, 0)
                  ELSE IF Head(s) = "-" /\ is_signed(T) THEN radix_digits(T, Tail(s), 1, FALSE, 0)
                  ELSE radix_digits(T, s, 1, TRUE, 0)
         IN  IF r.ok THEN [ok |-> TRUE, value |-> r.value % Modulus] ELSE r

Ok(bits) == [ok |-> TRUE, bits |-> bits, err |-> "none"]

Err(e) == [ok |-> FALSE, bits |-> 0, err |-> e]

RECURSIVE from_text_segments_from_right(_, _, _, _)
\* the loop of from_text taking the segments from the last to the first
from_text_segments_from_right(T, segs, i, parsed_flags) ==
    IF i > Len(segs) THEN Ok(parsed_flags)
    ELSE LET flag == trim(segs[Len(segs) + 1 - i])
         IN  IF flag = << >> THEN Err("EmptyFlag")
             ELSE IF starts_with_0x(flag)
                  THEN LET bits == from_str_radix(T, strip_prefix_0x(flag))
                       IN  IF ~bits.ok THEN Err("InvalidHexFlag")
                           ELSE from_text_segments_from_right(T, segs, i + 1,
                                    set(parsed_flags, from_bits_retain(bits.value)))
                  ELSE LET named == from_flag_name(T, flag)
                       IN  IF ~named.some THEN Err("InvalidNamedFlag")
                           ELSE from_text_segments_from_right(T, segs, i + 1,
                                    set(parsed_flags, named.bits))

RECURSIVE from_text_segments(_, _, _, _)
\* for flag in input.split('|') { ... parsed_flags.set(parsed_flag) }
from_text_segments(T, segs, i, parsed_flags) ==
    IF i > Len(segs) THEN Ok(parsed_flags)
    ELSE LET flag == trim(segs[i])
         IN  IF flag = << >> THEN Err("EmptyFlag")
             ELSE IF starts_with_0x(flag)
                  THEN LET bits == from_str_radix(T, strip_prefix_0x(flag))
                       IN  IF ~bits.ok THEN Err("InvalidHexFlag")
                           ELSE from_text_segments(T, segs, i + 1,
                                    set(parsed_flags, from_bits_retain(bits.value)))
                  ELSE LET named == from_flag_name(T, flag)
                       IN  IF ~named.some THEN Err("InvalidNamedFlag")
                           ELSE from_text_segments(T, segs, i + 1,
                                    set(parsed_flags, named.bits))

from_text(T, input) ==
    IF trim(input) = << >> THEN Ok(empty)
    ELSE from_text_segments(T, split(input), 1, empty)

from_text_truncate(T, input) ==
    LET r == from_text(T, input)
    IN  IF r.ok THEN Ok(truncated(T, r.bits)) ELSE r

RECURSIVE from_text_strict_segments(_, _, _, _)
from_text_strict_segments(T, segs, i, parsed_flags) ==
    IF i > Len(segs) THEN Ok(parsed_flags)
    ELSE LET flag == trim(segs[i])
         IN  IF flag = << >> THEN Err("EmptyFlag")
             ELSE IF starts_with_0x(flag) THEN Err("InvalidHexFlag")
             ELSE LET named == from_flag_name(T, flag)
                  IN  IF ~named.some THEN Err("InvalidNamedFlag")
                      ELSE from_text_strict_segments(T, segs, i + 1,
                               set(parsed_flags, named.bits))

\* from_text_strict that parses hex segments as from_text does
from_text_strict_with_hex(T, input) == from_text(T, input)

from_text_strict(T, input) ==
    IF trim(input) = << >> THEN Ok(empty)
    ELSE from_text_strict_segments(T, split(input), 1, empty)

-----------------------------------------------------------------------------
(* The program: it builds a flags value (from raw bits, or by parsing an   *)
(* input text), and then iterates it, or writes it as text and parses the  *)
(* text back.                                                              *)

MaxSegs == 2

\* the segments an input text is made of, joined by '|'
Segments ==
    { <<"A">>, <<" ", "B", "\t">>, <<"a">>, <<"A", " ", "&", " ", "B">>,
      <<"0", "x", "8">>, <<"0", "x", "1">>, <<"0", "x", "g">>,
      <<"0", "x", "f", "f", "f", "f", "f", "f", "f", "f", "f", "f", "f", "f">>,
      <<"0", "x", "8", "0">>, <<"0", "x">>, <<"0", "x", "+", "8">>, <<"0", "X", "8">>,
      << >>, <<" ">>, <<"Z", "E", "R", "O">> }

RECURSIVE join(_, _)
join(segs, i) ==
    IF i > Len(segs) THEN << >>
    ELSE IF i = Len(segs) THEN segs[i]
    ELSE segs[i] \o <<"|">> \o join(segs, i + 1)

\* inputs of three segments: "0x1 | 0x8 | B", "A || 0xg", "0xg | |"
LongInputs ==
    { << <<"0", "x", "1", " ">>, <<" ", "0", "x", "8", " ">>, <<" ", "B">> >>,
      << <<"A", " ">>, << >>, <<" ", "0", "x", "g">> >>,
      << <<"0", "x", "g", " ">>, <<" ">>, << >> >> }

Inputs == UNION { [1..n -> Segments] : n \in 1..MaxSegs } \cup LongInputs

T == Type(ty_name)

\* no second value: the program works on one value only
NoPeer == [val |-> empty, iter |-> Iter_new(empty), ret |-> << >>, log |-> << >>]

Init ==
    /\ ty_name \in TypeNames
    /\ pc = "start"
    /\ val = empty
    /\ index = 0 /\ source = 0 /\ remaining = 0 /\ done = FALSE
    /\ ret = << >>
    /\ log = << >>
    /\ at = << >>
    /\ text = << >>
    /\ origin = "none"
    /\ parser = "none"
    /\ res = Ok(empty)
    /\ call = "none"
    /\ arg = 0
    /\ peer = NoPeer

\* let v = Flags::from_bits_retain(bits)
FromBitsRetain ==
    /\ pc = "start"
    /\ \E bits \in Bits :
          /\ val' = from_bits_retain(bits)
          /\ arg' = bits
    /\ call' = "from_bits_retain"
    /\ pc' = "value"
    /\ UNCHANGED <<peer, ty_name, index, source, remaining, done, ret, log, at, text, origin, parser, res>>

\* the flags values given as the other operand of a binary operation: empty,
\* named flags, single unknown bits, a named flag with an unknown bit, every
\* bit above the named ones, every bit
Operands == {0, 1, 6, 8, 32, 40, 248, 255}

\* let r = <a call on raw bits or on v>: the call, its argument and what it returned
Returned(name, a, r) ==
    /\ call' = name
    /\ arg' = a
    /\ ret' = << r >>
    /\ pc' = "called"
    /\ UNCHANGED <<peer, ty_name, val, index, source, remaining, done, log, at, text, origin, parser, res>>

\* the traits a #[derive(...)] on the enum may list
Derivable == {"Debug", "Default", "Clone"}

\* the attribute macro expands the enum: its derive list and the variant that
\* carries #[default], if any
Parse ==
    /\ pc = "start"
    /\ \E derives \in SUBSET Derivable, marked \in 0..Len(KNOWN_FLAGS(T)) :
          Returned("parse", [derives |-> derives, marked |-> marked],
                   Bitflag_parse(derives, marked))

\* Default::default() of the expanded type, which exists when Default was derived
DefaultDefault ==
    /\ pc = "called"
    /\ call = "parse"
    /\ ret[1].ok
    /\ ret[1].impl_default
    /\ Returned("default", arg, default_impl(T, ret[1]))

\* Flags::all()
All == pc = "start" /\ Returned("all", arg, all(T))

\* Flags::from_bits(raw)
FromBits == pc = "start" /\ \E raw \in Bits : Returned("from_bits", raw, from_bits(T, raw))

\* Flags::from_bits_truncate(raw)
FromBitsTruncate ==
    pc = "start" /\ \E raw \in Bits : Returned("from_bits_truncate", raw, from_bits_truncate(T, raw))

\* Flags::from_bits_retain(raw).bits()
BitsOf == pc = "value" /\ Returned("bits", arg, bits_of(val))

\* v.is_all()
IsAll == pc = "value" /\ Returned("is_all", arg, is_all(T, val))

\* v.not()
NotOf == pc = "value" /\ Returned("not", arg, not(val))

\* v.complement()
Complement == pc = "value" /\ Returned("complement", arg, complement(T, val))

\* !v
OpsNot == pc = "value" /\ Returned("!", arg, ops_Not(T, val))

\* v.difference(other)
Difference ==
    pc = "value" /\ \E other \in Operands : Returned("difference", other, difference(val, other))

\* v - other
OpsSub == pc = "value" /\ \E other \in Operands : Returned("-", other, ops_Sub(val, other))

\* let mut w = v; w -= other; w
OpsSubAssign ==
    pc = "value" /\ \E other \in Operands : Returned("-=", other, ops_SubAssign(val, other))

\* v & !other
AndOfNot ==
    pc = "value" /\ \E other \in Operands :
                       Returned("& !", other, ops_BitAnd(val, ops_Not(T, other)))

\* let mut iter = v.iter_names()
IterNamesNew ==
    /\ pc = "value"
    /\ LET it == IterNames_new(val)
       IN  /\ index' = it.index
           /\ source' = it.source
           /\ remaining' = it.remaining
    /\ pc' = "iter_names"
    /\ UNCHANGED <<peer, call, arg, ty_name, val, done, ret, log, at, text, origin, parser, res>>

\* let mut iter = v.iter()
IterNew ==
    /\ pc = "value"
    /\ LET it == IterNames_new(val)
       IN  /\ index' = it.index
           /\ source' = it.source
           /\ remaining' = it.remaining
    /\ done' = FALSE
    /\ pc' = "iter"
    /\ UNCHANGED <<peer, call, arg, ty_name, val, ret, log, at, text, origin, parser, res>>

\* one call of IterNames::next
IterNamesNext ==
    /\ pc = "iter_names"
    /\ \E r \in {IterNames_next(KNOWN_FLAGS(T),
                                [index |-> index, source |-> source,
                                 remaining |-> remaining])} :
           /\ index' = r.it.index
           /\ source' = r.it.source
           /\ remaining' = r.it.remaining
           /\ ret' = << r.item >>
           /\ log' = IF r.item.some THEN Append(log, r.item) ELSE log
           /\ at' = IF r.item.some THEN Append(at, r.it.index) ELSE at
    /\ UNCHANGED <<peer, call, arg, ty_name, pc, val, done, text, origin, parser, res>>

\* one call of Iter::next
IterNext ==
    /\ pc = "iter"
    /\ \E r \in {Iter_next(KNOWN_FLAGS(T),
                           [inner |-> [index |-> index, source |-> source,
                                       remaining |-> remaining],
                            done |-> done])} :
           /\ index' = r.iter.inner.index
           /\ source' = r.iter.inner.source
           /\ remaining' = r.iter.inner.remaining
           /\ done' = r.iter.done
           /\ ret' = << r.item >>
           /\ log' = IF r.item.some THEN Append(log, r.item) ELSE log
           /\ at' = IF r.item.some THEN Append(at, r.iter.inner.index) ELSE at
    /\ UNCHANGED <<peer, call, arg, ty_name, pc, val, text, origin, parser, res>>

ToWriter ==
    /\ pc = "value"
    /\ text' = to_writer(T, val)
    /\ origin' = "retain"
    /\ pc' = "text"
    /\ UNCHANGED <<peer, call, arg, ty_name, val, index, source, remaining, done, ret, log, at, parser, res>>

ToWriterTruncate ==
    /\ pc = "value"
    /\ text' = to_writer_truncate(T, val)
    /\ origin' = "truncate"
    /\ pc' = "text"
    /\ UNCHANGED <<peer, call, arg, ty_name, val, index, source, remaining, done, ret, log, at, parser, res>>

ToWriterStrict ==
    /\ pc = "value"
    /\ text' = to_writer_strict(T, val)
    /\ origin' = "strict"
    /\ pc' = "text"
    /\ UNCHANGED <<peer, call, arg, ty_name, val, index, source, remaining, done, ret, log, at, parser, res>>

\* an input text arrives from outside
Input ==
    /\ pc = "start"
    /\ \E segs \in Inputs : text' = join(segs, 1)
    /\ origin' = "input"
    /\ pc' = "text"
    /\ UNCHANGED <<peer, call, arg, ty_name, val, index, source, remaining, done, ret, log, at, parser, res>>

FromText ==
    /\ pc = "text"
    /\ origin \in {"retain", "input"}
    /\ res' = from_text(T, text)
    /\ parser' = "retain"
    /\ pc' = "parsed"
    /\ UNCHANGED <<peer, call, arg, ty_name, val, index, source, remaining, done, ret, log, at, text, origin>>

FromTextTruncate ==
    /\ pc = "text"
    /\ origin \in {"truncate", "input"}
    /\ res' = from_text_truncate(T, text)
    /\ parser' = "truncate"
    /\ pc' = "parsed"
    /\ UNCHANGED <<peer, call, arg, ty_name, val, index, source, remaining, done, ret, log, at, text, origin>>

FromTextStrict ==
    /\ pc = "text"
    /\ origin \in {"strict", "input"}
    /\ res' = from_text_strict(T, text)
    /\ parser' = "strict"
    /\ pc' = "parsed"
    /\ UNCHANGED <<peer, call, arg, ty_name, val, index, source, remaining, done, ret, log, at, text, origin>>

Next ==
    \/ FromBitsRetain
    \/ IterNamesNew
    \/ IterNew
    \/ IterNamesNext
    \/ IterNext
    \/ ToWriter
    \/ ToWriterTruncate
    \/ ToWriterStrict
    \/ Input
    \/ FromText
    \/ FromTextTruncate
    \/ FromTextStrict
    \/ FromBits
    \/ FromBitsTruncate
    \/ BitsOf
    \/ IsAll
    \/ NotOf
    \/ Complement
    \/ OpsNot
    \/ Difference
    \/ OpsSub
    \/ OpsSubAssign
    \/ AndOfNot
    \/ All
    \/ Parse
    \/ DefaultDefault

Spec == Init /\ [][Next]_vars

\* Two flags values of one type, each with an Iter made from it by iter(); the
\* iterators hold the same &'static table and a copy of their value.  Their
\* calls of next interleave in any order, and the first value is mutated in
\* place meanwhile.
SharedValues == {0, 7, 9, 15}

ShareInit ==
    /\ ty_name \in TypeNames
    /\ pc = "iter"
    /\ \E bits \in SharedValues :
          /\ val = from_bits_retain(bits)
          /\ arg = bits
          /\ index = Iter_new(val).inner.index
          /\ source = Iter_new(val).inner.source
          /\ remaining = Iter_new(val).inner.remaining
          /\ done = Iter_new(val).done
    /\ \E bits \in SharedValues :
          peer = [val |-> from_bits_retain(bits), iter |-> Iter_new(from_bits_retain(bits)),
                  ret |-> << >>, log |-> << >>]
    /\ ret = << >>
    /\ log = << >>
    /\ at = << >>
    /\ text = << >>
    /\ origin = "none"
    /\ parser = "none"
    /\ res = Ok(empty)
    /\ call = "from_bits_retain"

\* one call of Iter::next on the second value's iterator
PeerNext ==
    /\ pc = "iter"
    /\ \E r \in {Iter_next(KNOWN_FLAGS(T), peer.iter)} :
          peer' = [peer EXCEPT !.iter = r.iter,
                               !.ret = << r.item >>,
                               !.log = IF r.item.some THEN Append(@, r.item) ELSE @]
    /\ UNCHANGED <<ty_name, pc, val, index, source, remaining, done, ret, log, at, text, origin,
                   parser, res, call, arg>>

\* v.set(other) on the first value, after its iterator was made
SetValue ==
    /\ pc = "iter"
    /\ \E other \in SharedValues : val' = set(val, other)
    /\ UNCHANGED <<ty_name, pc, index, source, remaining, done, ret, log, at, text, origin,
                   parser, res, call, arg, peer>>

ShareNext ==
    \/ IterNext
    \/ PeerNext
    \/ SetValue

ShareSpec == ShareInit /\ [][ShareNext]_vars

\* The operations that give bits or a flags value, and the iteration loops:
\* `for item in v.iter()` and `for (name, flag) in v.iter_names()` call next
\* until it returns None, so a call of next that is possible is eventually made.
IterStep ==
    \/ FromBitsRetain
    \/ BitsOf
    \/ NotOf
    \/ Complement
    \/ OpsNot
    \/ Difference
    \/ OpsSub
    \/ OpsSubAssign
    \/ AndOfNot
    \/ IterNamesNew
    \/ IterNew
    \/ IterNamesNext
    \/ IterNext

IterSpec ==
    /\ Init
    /\ [][IterStep]_vars
    /\ WF_vars(IterNamesNext)
    /\ WF_vars(IterNext)

-----------------------------------------------------------------------------
(* Properties.                                                             *)

IterEnded == pc = "iter" /\ ret = << None >>

IterNamesEnded == pc = "iter_names" /\ ret = << None >>

RoundTripped(mode) == pc = "parsed" /\ origin = mode /\ parser = mode

RECURSIVE UnionOfItems(_, _)
\* the OR of the bits of the first n items of a sequence of items
UnionOfItems(items, n) ==
    IF n = 0 THEN 0 ELSE BitOr(UnionOfItems(items, n - 1), items[n].bits)

\* C1: when iter() on v has been run to end-of-sequence, the union of the
\* values it yielded, built by from_iter starting from empty, is exactly v,
\* unknown bits included.
C1_IterRoundTrip == IterEnded => from_iter(log) = val

C1_Witness ==
    /\ IterEnded
    /\ ty_name = "TestOverlapping"
    /\ val = 15
    /\ Len(log) = 3
    /\ log[3].bits = 8

\* C2: parsing with from_text the text the retain formatter wrote for v
\* succeeds and gives back v, for every v of every flags type, over a signed
\* primitive as over an unsigned one.
C2_RetainRoundTrip == RoundTripped("retain") => (res.ok /\ res.bits = val)

\* C3 as stated: for every v with no bit outside the OR of the named flags,
\* from_text_strict of the text of to_writer_strict(v) gives back v.
C3_StrictRoundTripNamedBits ==
    (RoundTripped("strict") /\ BitAnd(val, BitNot(all_named(T))) = 0)
        => (res.ok /\ res.bits = val)

RECURSIVE UnionOfContained(_, _, _)
\* the OR of the bits of the first n table flags that v contains
UnionOfContained(flags, v, n) ==
    IF n = 0 THEN 0
    ELSE IF BitAnd(v, flags[n].bits) = flags[n].bits
         THEN BitOr(UnionOfContained(flags, v, n - 1), flags[n].bits)
         ELSE UnionOfContained(flags, v, n - 1)

IsUnionOfNamed(v) == UnionOfContained(KNOWN_FLAGS(T), v, Len(KNOWN_FLAGS(T))) = v

\* C3 amended: for every v that is a union of named flags (the named flags v
\* contains cover v), from_text_strict of the text of to_writer_strict(v)
\* succeeds and gives back v.
C3_StrictRoundTripUnion ==
    (RoundTripped("strict") /\ IsUnionOfNamed(val)) => (res.ok /\ res.bits = val)

C3_Witness ==
    /\ RoundTripped("strict")
    /\ ty_name = "TestOverlapping"
    /\ val = 7
    /\ text = <<"A", "B", " ", "|", " ", "B", "C">>
    /\ res = Ok(7)

\* C4 as stated: the bit patterns of the items iter() yields on v are
\* pairwise disjoint, and together they cover v.
C4_ItemsPairwiseDisjoint ==
    IterEnded =>
        /\ \A i, j \in 1..Len(log) : i # j => BitAnd(log[i].bits, log[j].bits) = 0
        /\ UnionOfItems(log, Len(log)) = val

\* C4 amended: every item iter() yields on v lies within v and brings at
\* least one bit of v that no earlier item has, so every set bit of v is
\* first attributed to exactly one item, and at end-of-sequence the items
\* together cover v; the full bit patterns of two items may share bits.
C4_ItemsAttributeFreshBits ==
    pc = "iter" =>
        /\ \A i \in 1..Len(log) :
              /\ BitAnd(log[i].bits, BitNot(val)) = 0
              /\ BitAnd(log[i].bits, BitNot(UnionOfItems(log, i - 1))) # 0
        /\ ret = << None >> => UnionOfItems(log, Len(log)) = val

C4_Witness ==
    /\ IterEnded
    /\ ty_name = "TestOverlapping"
    /\ val = 7
    /\ Len(log) = 2
    /\ BitAnd(log[1].bits, log[2].bits) = 2

FlagAt(k) == KNOWN_FLAGS(T)[k]

RECURSIVE UnionOfYieldedBefore(_, _)
\* the OR of the bits of the table flags yielded from a position before k,
\* among the first n items of log
UnionOfYieldedBefore(k, n) ==
    IF n = 0 THEN 0
    ELSE IF at[n] < k
         THEN BitOr(UnionOfYieldedBefore(k, n - 1), FlagAt(at[n]).bits)
         ELSE UnionOfYieldedBefore(k, n - 1)

YieldedAt(k) == \E i \in 1..Len(at) : at[i] = k

\* C5: of the table entries iter_names() has visited, exactly those are
\* yielded that the original source fully contains and that share a bit with
\* what remained when they were visited; each is yielded with its name and
\* full bit pattern, and remaining is the source less all bits of the yielded
\* flags.  For {AB=0b011, BC=0b110}, source 0b111 yields AB then BC and
\* leaves remaining empty; source 0b001 yields no flag, leaves remaining
\* 0b001 and is written "0x1".
C5_OverlapRule ==
    /\ pc = "iter_names" =>
          /\ \A k \in 1..index :
                YieldedAt(k) <=>
                    /\ BitAnd(source, FlagAt(k).bits) = FlagAt(k).bits
                    /\ BitAnd(BitAnd(source, BitNot(UnionOfYieldedBefore(k, Len(at)))),
                              FlagAt(k).bits) # 0
          /\ \A i \in 1..Len(log) :
                log[i].name = FlagAt(at[i]).name /\ log[i].bits = FlagAt(at[i]).bits
          /\ remaining = BitAnd(source, BitNot(UnionOfItems(log, Len(log))))
    /\ (IterNamesEnded /\ ty_name = "TestOverlapping" /\ val = 7) =>
          /\ log = << Some(<<"A", "B">>, 3), Some(<<"B", "C">>, 6) >>
          /\ remaining = 0
    /\ (IterNamesEnded /\ ty_name = "TestOverlapping" /\ val = 1) =>
          log = << >> /\ remaining = 1
    /\ (pc = "text" /\ origin = "retain" /\ ty_name = "TestOverlapping" /\ val = 1) =>
          text = <<"0", "x", "1">>

C5_Witness ==
    /\ IterNamesEnded
    /\ ty_name = "TestOverlapping"
    /\ val = 7
    /\ at = <<1, 2>>
    /\ index = 2

\* C6: named flags are yielded in strictly increasing table order, each
\* entry at most once; of entries with identical bits only the first declared
\* is ever yielded (C = 1 of {A=1, B=1, C=1, D=2} is written "A"); all() of
\* {A, B, C, ABC} is written "A | B | C" and all() of {ABC, A, B, C} is
\* written "ABC".
C6_DeclarationOrder ==
    /\ pc = "iter_names" =>
          /\ \A i, j \in 1..Len(at) : i < j => at[i] < at[j]
          /\ \A k \in 1..Len(KNOWN_FLAGS(T)) :
                (\E j \in 1..(k - 1) : FlagAt(j).bits = FlagAt(k).bits) => ~YieldedAt(k)
    /\ (pc = "text" /\ origin = "retain") =>
          /\ (ty_name = "TestOverlappingFull" /\ val = 1) => text = <<"A">>
          /\ (ty_name = "TestFlags" /\ val = 7) =>
                text = <<"A", " ", "|", " ", "B", " ", "|", " ", "C">>
          /\ (ty_name = "TestFlagsInvert" /\ val = 7) => text = <<"A", "B", "C">>

C6_Witness ==
    /\ IterNamesEnded
    /\ ty_name = "TestFlags"
    /\ val = 7
    /\ at = <<1, 2, 3>>

\* C7: for a table flag Z with bits 0 and every value v, contains(v, Z) is
\* true and intersects(v, Z) is false; neither iter_names() nor iter() ever
\* yields Z; a value with no bit set is written as the empty text; and
\* from_flag_name of Z's name is Z.
C7_ZeroBitFlags ==
    /\ \A k \in 1..Len(KNOWN_FLAGS(T)) :
          FlagAt(k).bits = 0 =>
              /\ contains(val, FlagAt(k).bits)
              /\ ~intersects(val, FlagAt(k).bits)
              /\ pc \in {"iter_names", "iter"} =>
                    \A i \in 1..Len(log) : log[i].bits # 0 /\ log[i].name # FlagAt(k).name
              /\ from_flag_name(T, FlagAt(k).name) = [some |-> TRUE, bits |-> 0]
    /\ (pc = "text" /\ origin = "retain" /\ val = 0) => text = << >>

C7_Witness ==
    /\ IterNamesEnded
    /\ ty_name = "TestZeroOne"
    /\ val = 1
    /\ log = << Some(<<"O", "N", "E">>, 1) >>
    /\ at = <<2>>

\* C8: from_text_truncate of the text to_writer_truncate wrote for v
\* succeeds and equals from_bits_truncate(v.bits()), for every v of every
\* flags type.
C8_TruncateRoundTrip ==
    RoundTripped("truncate") => (res.ok /\ res.bits = BitAnd(val, all(T)))

RECURSIVE JoinNames(_, _)
\* the names of the first n items, joined by " | "
JoinNames(items, n) ==
    IF n = 0 THEN << >>
    ELSE IF n = 1 THEN items[1].name
    ELSE JoinNames(items, n - 1) \o <<" ", "|", " ">> \o items[n].name

NamesYielded == iter_names_all(KNOWN_FLAGS(T), IterNames_new(val))

\* C9: to_writer_strict(v) writes exactly the names iter_names(v) yields,
\* joined by " | ", with no hex suffix, for values with unknown or unmatched
\* bits too; and whenever from_text_strict parses that text, the result is
\* the union of the flags iter_names(v) yields.
C9_StrictAsTested ==
    /\ (pc \in {"text", "parsed"} /\ origin = "strict") =>
          text = JoinNames(NamesYielded, Len(NamesYielded))
    /\ (RoundTripped("strict") /\ res.ok) =>
          res.bits = UnionOfItems(NamesYielded, Len(NamesYielded))

C9_Witness ==
    /\ RoundTripped("strict")
    /\ ty_name = "TestFlags"
    /\ val = 11
    /\ text = <<"A", " ", "|", " ", "B">>
    /\ res = Ok(3)

HexChars == { HexUpper[i] : i \in 1..16 } \cup { HexLower[i] : i \in 1..16 }

RECURSIVE StripZeros(_)
StripZeros(s) == IF s # << >> /\ Head(s) = "0" THEN StripZeros(Tail(s)) ELSE s

\* the number two hex digits at most stand for
SmallHexValue(s) ==
    IF s = << >> THEN 0
    ELSE IF Len(s) = 1 THEN to_digit(s[1])
    ELSE 16 * to_digit(s[1]) + to_digit(s[2])

\* the digits of a hex segment after "0x" are taken when, after an optional
\* sign ('+', or '-' for a signed primitive), they are one or more hex digits
\* whose value lies in the range of the primitive
HexSign(digits) ==
    IF digits # << >> /\ Head(digits) = "+" THEN 1
    ELSE IF digits # << >> /\ Head(digits) = "-" /\ is_signed(T) THEN -1
    ELSE 0

HexBody(digits) == IF HexSign(digits) = 0 THEN digits ELSE Tail(digits)

HexTaken(digits) ==
    LET body == HexBody(digits)
        z == StripZeros(body)
    IN  /\ body # << >>
        /\ \A i \in 1..Len(body) : body[i] \in HexChars
        /\ Len(z) <= Width \div 4
        /\ IF HexSign(digits) = -1
           THEN SmallHexValue(z) <= Modulus \div 2
           ELSE SmallHexValue(z) <= (IF is_signed(T) THEN (Modulus \div 2) - 1 ELSE Modulus - 1)

HexPattern(digits) ==
    LET v == SmallHexValue(StripZeros(HexBody(digits)))
    IN  IF HexSign(digits) = -1 THEN (Modulus - v) % Modulus ELSE v

IsHexSegment(seg) == Len(seg) >= 2 /\ SubSeq(seg, 1, 2) = <<"0", "x">>

HexBad(seg) == IsHexSegment(seg) /\ ~HexTaken(SubSeq(seg, 3, Len(seg)))

NameMatches(seg) == { k \in 1..Len(KNOWN_FLAGS(T)) : FlagAt(k).name = seg }

NameBad(seg) == seg # << >> /\ ~IsHexSegment(seg) /\ NameMatches(seg) = {}

TrimmedSegments == LET pieces == split(text) IN [i \in 1..Len(pieces) |-> trim(pieces[i])]

\* C10: in from_text, a non-empty trimmed segment that starts with "0x" is
\* parsed as hexadecimal into the primitive and gives InvalidHexFlag when its
\* digits are invalid ("0xg") or overflow the primitive ("0xffffffffffff"
\* for u8); any other non-empty segment is matched exactly and with case
\* against the flag names and gives InvalidNamedFlag when none matches ("a",
\* "A & B").  No other segment gives either error.
C10_RetainErrorKinds ==
    (pc = "parsed" /\ parser = "retain" /\ trim(text) # << >>) =>
        LET segs == TrimmedSegments
        IN  /\ res.err = "InvalidHexFlag" => \E i \in 1..Len(segs) : HexBad(segs[i])
            /\ res.err = "InvalidNamedFlag" => \E i \in 1..Len(segs) : NameBad(segs[i])
            /\ (\E i \in 1..Len(segs) : HexBad(segs[i]) \/ NameBad(segs[i])) => ~res.ok
            /\ (Len(segs) = 1 /\ IsHexSegment(segs[1])) =>
                  res = IF HexBad(segs[1]) THEN Err("InvalidHexFlag")
                        ELSE Ok(HexPattern(SubSeq(segs[1], 3, Len(segs[1]))))
            /\ (Len(segs) = 1 /\ ~IsHexSegment(segs[1])) =>
                  res = IF NameBad(segs[1]) THEN Err("InvalidNamedFlag")
                        ELSE Ok(FlagAt(CHOOSE k \in NameMatches(segs[1]) :
                                    \A j \in NameMatches(segs[1]) : k <= j).bits)
            /\ text \in { <<"0", "x", "g">>,
                          <<"0", "x", "f", "f", "f", "f", "f", "f", "f", "f", "f", "f", "f", "f">> }
                  => res = Err("InvalidHexFlag")
            /\ text \in { <<"a">>, <<"A", " ", "&", " ", "B">>, <<"0", "X", "8">> }
                  => res = Err("InvalidNamedFlag")

C10_Witness ==
    /\ pc = "parsed"
    /\ parser = "retain"
    /\ origin = "input"
    /\ ty_name = "TestFlags"
    /\ text = <<"A">> \o <<"|">> \o
              <<"0", "x", "f", "f", "f", "f", "f", "f", "f", "f", "f", "f", "f", "f">>
    /\ res = Err("InvalidHexFlag")

Parsed(mode) == pc = "parsed" /\ parser = mode

\* a trimmed segment the parser of a mode takes: a flag name of the table, or,
\* outside strict mode, "0x" and digits that fit the primitive
SegAccepted(seg, mode) ==
    /\ seg # << >>
    /\ IF IsHexSegment(seg) THEN mode # "strict" /\ ~HexBad(seg)
       ELSE NameMatches(seg) # {}

\* C11: from_text_strict never accepts an input with a segment that starts
\* with "0x"; when such a segment is the first one that is not a flag name
\* the error is InvalidHexFlag, whether its digits are valid or not and
\* whether its value lies within the known bits or not: "0x1", "0xg" and
\* "0xffffffffffff" all give InvalidHexFlag.
C11_StrictRejectsHex ==
    (Parsed("strict") /\ trim(text) # << >>) =>
        LET segs == TrimmedSegments
        IN  /\ (\E i \in 1..Len(segs) : IsHexSegment(segs[i])) => ~res.ok
            /\ \A i \in 1..Len(segs) :
                  (/\ IsHexSegment(segs[i])
                   /\ \A j \in 1..(i - 1) : SegAccepted(segs[j], "strict"))
                      => res = Err("InvalidHexFlag")
            /\ text \in { <<"0", "x", "1">>, <<"0", "x", "g">>, <<"0", "x", "8">>,
                          <<"0", "x", "f", "f", "f", "f", "f", "f", "f", "f", "f", "f", "f", "f">> }
                  => res = Err("InvalidHexFlag")

C11_Witness ==
    /\ Parsed("strict")
    /\ origin = "input"
    /\ ty_name = "TestFlags"
    /\ text = <<"A">> \o <<"|">> \o <<"0", "x", "1">>
    /\ res = Err("InvalidHexFlag")

Whitespace == {" ", "\t", "\n", "\r"}

Blank(s) == \A i \in 1..Len(s) : s[i] \in Whitespace

HasBlankSegment == LET segs == split(text) IN \E i \in 1..Len(segs) : Blank(segs[i])

FirstBlankSegment ==
    LET segs == split(text)
    IN  CHOOSE i \in 1..Len(segs) : Blank(segs[i]) /\ \A j \in 1..(i - 1) : ~Blank(segs[j])

\* C12 as stated: in every parser mode a blank input parses to the empty
\* value, and every input that is not blank but has a '|'-delimited segment
\* that trims to nothing returns EmptyFlag.
C12_BlankSegmentAlwaysEmptyFlag ==
    pc = "parsed" =>
        /\ Blank(text) => res = Ok(empty)
        /\ (~Blank(text) /\ HasBlankSegment) => res = Err("EmptyFlag")

\* C12 amended: in every parser mode a blank input parses to the empty
\* value; an input that is not blank but has a segment that trims to nothing
\* is never parsed, and the error is EmptyFlag exactly when every segment
\* before the first such segment is one the mode accepts (otherwise it is the
\* error of the earlier segment); no other input gives EmptyFlag.
C12_BlankOrFirstEmptySegment ==
    pc = "parsed" =>
        /\ Blank(text) => res = Ok(empty)
        /\ (~Blank(text) /\ HasBlankSegment) =>
              /\ ~res.ok
              /\ res.err = "EmptyFlag" <=>
                    LET segs == TrimmedSegments
                    IN  \A j \in 1..(FirstBlankSegment - 1) : SegAccepted(segs[j], parser)
        /\ res.err = "EmptyFlag" => (~Blank(text) /\ HasBlankSegment)

C12_Witness ==
    /\ Parsed("truncate")
    /\ origin = "input"
    /\ ty_name = "TestFlags"
    /\ text = <<"0", "x", "8">> \o <<"|">> \o <<" ">>
    /\ res = Err("EmptyFlag")

\* C13: every value from_text_strict returns with success, for any input,
\* has no bit outside all(): contains_unknown_bits is false of it, with no
\* truncate step in the parser.
C13_StrictWithinAll ==
    (Parsed("strict") /\ res.ok) =>
        /\ BitAnd(res.bits, BitNot(all(T))) = 0
        /\ ~contains_unknown_bits(T, res.bits)

C13_Witness ==
    /\ Parsed("strict")
    /\ origin = "input"
    /\ ty_name = "TestFlags"
    /\ text = <<"A">> \o <<"|">> \o <<" ", "B", "\t">>
    /\ res = Ok(3)

Called(name) == pc = "called" /\ call = name

\* the bits of v outside all()
UnknownBitsOf(v) == BitAnd(v, BitNot(all(T)))

\* C14: from_bits(raw) is Some(v) with v.bits() = raw exactly when raw has no
\* bit outside all(), and None otherwise; from_bits_truncate(raw).bits() is
\* raw AND all(); from_bits_retain(raw).bits() is raw, unknown bits kept;
\* bits() returns the stored value.  For {F1, F2, F3 = 1 << 3, F4, F1_3}:
\* from_bits(F1 | F2) is Some, from_bits(0x76) is None and
\* from_bits_truncate(1 | 2 | 0x20) is F1 | F2.
C14_ConstructorsFromRawBits ==
    /\ Called("from_bits") =>
          /\ ret[1].some <=> UnknownBitsOf(arg) = 0
          /\ ret[1].some => bits_of(ret[1].bits) = arg
          /\ (ty_name = "ApiTestFlags" /\ arg = 3) => ret[1] = [some |-> TRUE, bits |-> 3]
          /\ (ty_name = "ApiTestFlags" /\ arg = 118) => ~ret[1].some
    /\ Called("from_bits_truncate") =>
          /\ bits_of(ret[1]) = BitAnd(arg, all(T))
          /\ (ty_name = "ApiTestFlags" /\ arg = 35) => ret[1] = 3
    /\ (pc = "value" /\ call = "from_bits_retain") => bits_of(val) = arg
    /\ Called("bits") => (ret[1] = val /\ ret[1] = arg)

C14_Witness ==
    /\ Called("from_bits")
    /\ ty_name = "ApiTestFlags"
    /\ arg = 118
    /\ ret = << [some |-> FALSE, bits |-> 0] >>

C16_ComplementTruncates ==
    /\ Called("not") =>
          /\ BitAnd(ret[1], val) = 0
          /\ BitOr(ret[1], val) = Modulus - 1
    /\ Called("complement") =>
          /\ ret[1] = BitAnd(BitNot(val), all(T))
          /\ UnknownBitsOf(ret[1]) = 0
    /\ Called("!") =>
          /\ ret[1] = BitAnd(BitNot(val), all(T))
          /\ UnknownBitsOf(ret[1]) = 0
          /\ (ty_name = "ApiTestFlags" /\ val = 40) => ret[1] = 19

C16_Witness ==
    /\ Called("!")
    /\ ty_name = "ApiTestFlags"
    /\ val = 40
    /\ ret = << 19 >>

\* C17 as stated: whenever v has a bit outside all() set, not(v) and
\* complement(v) are different values.
C17_NotDiffersWithUnknownBits ==
    (Called("not") /\ contains_unknown_bits(T, val)) => ret[1] # complement(T, val)

\* C17 amended: not(v) and complement(v) are different values exactly when
\* some bit outside all() is not set in v (not(v) then has that bit and
\* complement(v) has not); a v that has every bit outside all() set gets
\* the same value from both.
C17_NotDiffersWhenUnknownBitUnset ==
    /\ Called("not") =>
          (ret[1] # complement(T, val) <=> UnknownBitsOf(BitNot(val)) # 0)
    /\ Called("complement") =>
          (ret[1] # not(val) <=> UnknownBitsOf(BitNot(val)) # 0)

C17_Witness ==
    /\ Called("not")
    /\ ty_name = "ApiTestFlags"
    /\ val = 40
    /\ ret = << 215 >>
    /\ complement(T, val) = 19

NamesOf(v) == iter_names_all(KNOWN_FLAGS(T), IterNames_new(v))

\* remaining() after them: the bits of v that no yielded flag has
RemainingOf(v) == BitAnd(v, BitNot(UnionOfItems(NamesOf(v), Len(NamesOf(v)))))

\* what precedes the hex literal: the names joined by " | ", and " | " again
\* when there is a name
BeforeHex(v) ==
    IF NamesOf(v) = << >> THEN << >>
    ELSE JoinNames(NamesOf(v), Len(NamesOf(v))) \o <<" ", "|", " ">>

UpperDigit(c) == (CHOOSE i \in 1..16 : HexUpper[i] = c) - 1

RECURSIVE UpperHexValue(_)
\* the number that a sequence of upper case hex digits stands for
UpperHexValue(digits) ==
    IF digits = << >> THEN 0
    ELSE 16 * UpperHexValue(SubSeq(digits, 1, Len(digits) - 1)) + UpperDigit(digits[Len(digits)])

\* the characters of txt after the names of v and the "0x"
HexDigitsAfter(txt, v) == SubSeq(txt, Len(BeforeHex(v)) + 3, Len(txt))

\* txt is v in the retain format
WrittenAsRetain(txt, v) ==
    IF RemainingOf(v) = 0
    THEN txt = JoinNames(NamesOf(v), Len(NamesOf(v)))
    ELSE LET pre == BeforeHex(v)
             digits == HexDigitsAfter(txt, v)
         IN  /\ Len(txt) > Len(pre) + 2
             /\ SubSeq(txt, 1, Len(pre) + 2) = pre \o <<"0", "x">>
             /\ \A i \in 1..Len(digits) : \E d \in 1..16 : HexUpper[d] = digits[i]
             /\ digits[1] # "0"
             /\ UpperHexValue(digits) = RemainingOf(v)

\* C19: to_writer(v) writes the names of the flags iter_names(v) yields, in
\* yield order, joined by " | ", and then, only if remaining() is not empty,
\* this remainder as "0x" and its upper case hex digits, not padded, after
\* " | " when a name was written; the empty value is written as the empty
\* text, never "0x0".
C19_RetainFormat ==
    (pc \in {"text", "parsed"} /\ origin = "retain") =>
        /\ WrittenAsRetain(text, val)
        /\ val = 0 => text = << >>
        /\ (ty_name = "TestFlags" /\ val = 9) =>
              text = <<"A", " ", "|", " ", "0", "x", "8">>

C19_Witness ==
    /\ pc = "text"
    /\ origin = "retain"
    /\ ty_name = "TestFlags"
    /\ val = 173
    /\ text = <<"A", " ", "|", " ", "C", " ", "|", " ", "0", "x", "A", "8">>

\* C20: to_writer_truncate(v) is to_writer(v.truncated()): the retain format
\* of v AND all(), so a hex literal in it has no bit outside all(), and a
\* value of unknown bits only is written as the empty text; known bits that
\* no contained named flag covers are still written in hex (value 1 of
\* {AB = 3, BC = 6} is written "0x1").
C20_TruncateFormat ==
    (pc \in {"text", "parsed"} /\ origin = "truncate") =>
        /\ text = to_writer(T, truncated(T, val))
        /\ WrittenAsRetain(text, BitAnd(val, all(T)))
        /\ RemainingOf(BitAnd(val, all(T))) # 0 =>
              UnknownBitsOf(UpperHexValue(HexDigitsAfter(text, BitAnd(val, all(T))))) = 0
        /\ BitAnd(val, all(T)) = 0 => text = << >>
        /\ (ty_name = "TestOverlapping" /\ val = 1) => text = <<"0", "x", "1">>

C20_Witness ==
    /\ pc = "text"
    /\ origin = "truncate"
    /\ ty_name = "TestOverlapping"
    /\ val = 9
    /\ text = <<"0", "x", "1">>

-----------------------------------------------------------------------------
(* C21 *)

\* the bits an attribute of the enum declares valid beyond the named flags: the
\* extra_valid_bits mask, else every bit under #[non_exhaustive], else none
DeclaredExtraBits ==
    IF T.extra_valid_bits # NoAttr THEN T.extra_valid_bits
    ELSE IF T.non_exhaustive THEN all_bits
    ELSE 0

NamedUnion == UnionOfItems(KNOWN_FLAGS(T), Len(KNOWN_FLAGS(T)))

\* C21: all() is the OR of the bits of every named flag and of the extra valid
\* bits: with no attribute it is exactly the OR of the named flags (0 for an
\* empty table), under #[non_exhaustive] without a mask it is all_bits(), it
\* agrees with KNOWN_FLAGS and EXTRA_VALID_BITS of the trait, and the extra
\* bits add no entry to KNOWN_FLAGS (all() of TestExternal still writes the
\* three single flags and the hex remainder 0xF8)
C21_AllIsNamedOrExtra ==
    /\ Called("all") =>
          /\ ret[1] = BitOr(NamedUnion, DeclaredExtraBits)
          /\ (T.extra_valid_bits = NoAttr /\ ~T.non_exhaustive) => ret[1] = NamedUnion
          /\ (T.extra_valid_bits = NoAttr /\ ~T.non_exhaustive /\ Len(T.flags) = 0)
                => ret[1] = 0
          /\ (T.extra_valid_bits = NoAttr /\ T.non_exhaustive) => ret[1] = all_bits
          /\ ret[1] = BitOr(NamedUnion, EXTRA_VALID_BITS(T))
          /\ KNOWN_FLAGS(T) = T.flags
          /\ ty_name = "SimpleFlag" => ret[1] = 223
          /\ ty_name \in {"TestExternal", "TestExternalFull"} => ret[1] = 255
    /\ (pc = "text" /\ origin = "retain" /\ val = all(T)) =>
          /\ ty_name = "TestExternal" =>
                text = <<"A", " ", "|", " ", "B", " ", "|", " ", "C", " ", "|", " ",
                         "0", "x", "F", "8">>
          /\ ty_name = "TestExternalFull" => text = <<"0", "x", "F", "F">>

C21_Witness ==
    /\ Called("all")
    /\ ty_name = "SimpleFlag"
    /\ ret = << 223 >>
    /\ BitAnd(ret[1], BitNot(NamedUnion)) # 0

-----------------------------------------------------------------------------
(* C22 *)

Iterating == pc \in {"iter_names", "iter"}

\* the table entries a call of next went over
Visited == index' - index

\* every result of an operation of the algebra is a value of the primitive,
\* and an iterator never went past the table nor gave more than one item per
\* table entry, plus one for the leftover bits of iter()
C22_Total ==
    /\ val \in Bits
    /\ pc = "called" => ret[1] \in Bits
    /\ Iterating =>
          /\ index \in 0..Len(KNOWN_FLAGS(T))
          /\ remaining \in Bits
          /\ Len(ret) = 1 => ret[1].bits \in Bits
          /\ Len(log) <= Len(KNOWN_FLAGS(T)) + (IF pc = "iter" THEN 1 ELSE 0)

\* a call of next goes over no more than the table entries that remained
C22_CallBounded ==
    (Iterating /\ pc' = pc) =>
        /\ Visited >= 0
        /\ Visited <= Len(KNOWN_FLAGS(T)) - index
        /\ Len(log') <= Len(log) + 1

\* C22: every call of next on an IterNames or an Iter returns after going over
\* at most the remaining table entries, repeated calls reach end-of-sequence
\* after at most len(flags) named items plus one remainder item, and no
\* operation of the algebra or of an iterator fails or diverges
C22_TotalAndTerminating ==
    /\ []C22_Total
    /\ [][C22_CallBounded]_vars
    /\ (pc = "iter_names") ~> IterNamesEnded
    /\ (pc = "iter") ~> IterEnded

\* an iteration that gave every table entry's worth of items and the leftover
\* bits, and then ended
C22_Witness ==
    /\ IterEnded
    /\ Len(KNOWN_FLAGS(T)) = 2
    /\ Len(log) = Len(KNOWN_FLAGS(T)) + 1
    /\ index = Len(KNOWN_FLAGS(T))

-----------------------------------------------------------------------------
(* C23 *)

RECURSIVE AloneFrom(_, _, _, _)
\* what iter() on v gives when nothing else runs, written out from the table:
\* from entry i on, every flag that v contains and that still has a bit in
\* rem, then the bits left over
AloneFrom(flags, v, rem, i) ==
    IF i > Len(flags)
    THEN IF rem # 0 THEN << Some(<< >>, rem) >> ELSE << >>
    ELSE LET f == flags[i].bits
         IN  IF BitAnd(v, f) = f /\ BitAnd(rem, f) # 0
             THEN << Some(<< >>, f) >> \o AloneFrom(flags, v, BitAnd(rem, BitNot(f)), i + 1)
             ELSE AloneFrom(flags, v, rem, i + 1)

Alone(v) == AloneFrom(T.flags, v, v, 1)

IsPrefix(p, q) == Len(p) <= Len(q) /\ SubSeq(q, 1, Len(p)) = p

\* C23: any interleaving of iterators over the same table gives each of them
\* the items it gives when run alone, and replacing one flags value in place
\* changes neither another value nor an iterator made from a copy of the
\* replaced value; the table itself is never written
C23_SharingIsRaceFree ==
    /\ IsPrefix(log, Alone(arg))
    /\ IterEnded => log = Alone(arg)
    /\ IsPrefix(peer.log, Alone(peer.val))
    /\ peer.ret = << None >> => peer.log = Alone(peer.val)
    /\ source = arg
    /\ peer.iter.inner.source = peer.val
    /\ BitAnd(val, arg) = arg
    /\ KNOWN_FLAGS(T) = Type(ty_name).flags

\* both iterators ended after giving different items, the second one started
\* after the first had moved on, and the first value was replaced meanwhile
C23_Witness ==
    /\ IterEnded
    /\ peer.ret = << None >>
    /\ Len(log) >= 2
    /\ Len(peer.log) >= 2
    /\ log # peer.log
    /\ val # arg

-----------------------------------------------------------------------------
(* C24 *)

\* bit k of a pattern
Bit(x, k) == (x \div (2 ^ k)) % 2 = 1

\* v holds every bit of table entry i
FullyContained(v, i) == BitAnd(v, T.flags[i].bits) = T.flags[i].bits

Entries == 1..Len(T.flags)

\* C24: when iter_names() on v has been run to its end, remaining() is v AND
\* NOT the OR of the bits of every table flag that v fully contains: it holds
\* exactly the unknown bits of v and the known bits of v that belong only to
\* named flags v does not fully contain, and it shares no bit with any
\* contained named flag
C24_FinalRemainder ==
    IterNamesEnded =>
        /\ remaining = BitAnd(val, BitNot(UnionOfContained(T.flags, val, Len(T.flags))))
        /\ \A k \in 0..(Width - 1) :
              Bit(remaining, k) <=>
                  /\ Bit(val, k)
                  /\ \/ ~Bit(all(T), k)
                     \/ \A i \in Entries : Bit(T.flags[i].bits, k) => ~FullyContained(val, i)
        /\ \A i \in Entries : FullyContained(val, i) => BitAnd(remaining, T.flags[i].bits) = 0

\* an ended iter_names() that left both an unknown bit and a bit of a named
\* flag the value holds only in part
C24_Witness ==
    /\ IterNamesEnded
    /\ BitAnd(remaining, BitNot(all(T))) # 0
    /\ \E i \in Entries :
          ~FullyContained(val, i) /\ BitAnd(remaining, T.flags[i].bits) # 0

-----------------------------------------------------------------------------
(* C25 *)

BitsOfItems(items) == [k \in 1..Len(items) |-> items[k].bits]

\* the named flags iter_names() gives for v, as their bits in order
NamedBitsOf(v) == BitsOfItems(iter_names_all(KNOWN_FLAGS(T), IterNames_new(v)))

\* the iterator the program holds at pc = "iter"
ThisIter ==
    [inner |-> [index |-> index, source |-> source, remaining |-> remaining], done |-> done]

\* C25: iter() first forwards every named flag of the inner iter_names(); when
\* the inner iterator first reports its end it gives remaining() once, exactly
\* when that is not empty, as the last item; afterwards every call gives None
C25_RemainderOnceAndLast ==
    pc = "iter" =>
        /\ ~done => IsPrefix(BitsOfItems(log), NamedBitsOf(val))
        /\ done =>
              /\ BitsOfItems(log) =
                    NamedBitsOf(val) \o (IF remaining # 0 THEN << remaining >> ELSE << >>)
              /\ Iter_next(KNOWN_FLAGS(T), ThisIter).item = None
              /\ Iter_next(KNOWN_FLAGS(T), ThisIter).iter = ThisIter
        /\ ret = << None >> => done

\* an ended iter() that gave two named flags and then the leftover bits
C25_Witness ==
    /\ IterEnded
    /\ Len(NamedBitsOf(val)) = 2
    /\ Len(log) = 3
    /\ log[3].bits = remaining
    /\ remaining # 0

-----------------------------------------------------------------------------
(* C26 *)

\* how many of the items given so far are named flags: all of them but the
\* leftover bits that a done iter() gave last
NamedGiven == IF pc = "iter" /\ done /\ remaining # 0 THEN Len(log) - 1 ELSE Len(log)

C26_StateInvariant ==
    Iterating =>
        /\ source = val
        /\ index \in 0..Len(KNOWN_FLAGS(T))
        /\ BitAnd(remaining, source) = remaining
        /\ remaining = BitAnd(source, BitNot(UnionOfItems(log, NamedGiven)))

C26_CallInvariant ==
    (Iterating /\ pc' = pc) =>
        /\ source' = source
        /\ index' >= index
        /\ BitAnd(remaining', remaining) = remaining'

\* C26: throughout an iteration over v, source is v and is never modified,
\* index never decreases and never exceeds len(flags), remaining is a subset
\* of source that never gains a bit, and remaining is source AND NOT the OR of
\* the named flags given so far
C26_IteratorState == []C26_StateInvariant /\ [][C26_CallInvariant]_vars

\* an iteration in progress: two named flags given, bits still remaining
C26_Witness ==
    /\ Iterating
    /\ NamedGiven = 2
    /\ index < Len(KNOWN_FLAGS(T))
    /\ remaining # 0
    /\ remaining # source

-----------------------------------------------------------------------------
(* C27 *)

RECURSIVE FullScan_next(_, _)
\* IterNames::next without the return on empty remaining bits: it always goes
\* on to the end of the table
FullScan_next(flags, it) ==
    IF it.index < Len(flags)
    THEN LET flag == flags[it.index + 1]
             it1 == [it EXCEPT !.index = @ + 1]
         IN  IF contains(it1.source, flag.bits) /\ intersects(it1.remaining, flag.bits)
             THEN [it |-> [it1 EXCEPT !.remaining = unset(@, flag.bits)],
                   item |-> Some(flag.name, from_bits_retain(flag.bits))]
             ELSE FullScan_next(flags, it1)
    ELSE [it |-> it, item |-> None]

RECURSIVE FullScan_run(_, _, _)
\* the full-scan iterator run to its end: the items it gave and its state
FullScan_run(flags, it, items) ==
    LET r == FullScan_next(flags, it)
    IN  IF r.item.some THEN FullScan_run(flags, r.it, Append(items, r.item))
        ELSE [items |-> items, it |-> r.it]

FullScan(v) == FullScan_run(KNOWN_FLAGS(T), IterNames_new(v), << >>)

\* C27: the return of next on empty remaining bits cannot be observed: an
\* iterator that always scans the table to its end gives the same named
\* flags in the same order and ends with the same remaining()
C27_ShortCircuitUnobservable ==
    /\ Iterating =>
          IsPrefix(SubSeq(BitsOfItems(log), 1, NamedGiven), BitsOfItems(FullScan(val).items))
    /\ pc = "iter_names" => IsPrefix(log, FullScan(val).items)
    /\ (IterNamesEnded \/ IterEnded) =>
          /\ SubSeq(BitsOfItems(log), 1, NamedGiven) = BitsOfItems(FullScan(val).items)
          /\ remaining = FullScan(val).it.remaining
    /\ IterNamesEnded => log = FullScan(val).items

\* an ended iter_names() that returned on empty remaining bits before the end
\* of the table, where the full scan went over contained flags after that
C27_Witness ==
    /\ IterNamesEnded
    /\ Len(log) >= 1
    /\ remaining = 0
    /\ index < Len(KNOWN_FLAGS(T))
    /\ \E i \in (index + 1)..Len(KNOWN_FLAGS(T)) :
          FullyContained(val, i) /\ T.flags[i].bits # 0
    /\ FullScan(val).it.index = Len(KNOWN_FLAGS(T))

-----------------------------------------------------------------------------
(* C28 *)

RECURSIVE PopCountW(_, _)
PopCountW(x, n) == IF n = 0 THEN 0 ELSE (x % 2) + PopCountW(x \div 2, n - 1)

\* the number of bits set in a pattern
PopCount(x) == PopCountW(x, Width)

\* C28: iter() on v gives at most as many items as v has bits set and at most
\* len(flags) + 1 items, and it gives no item at all exactly when v is empty
C28_YieldCountBound ==
    pc = "iter" =>
        /\ Len(log) <= PopCount(val)
        /\ Len(log) <= Len(KNOWN_FLAGS(T)) + 1
        /\ is_empty(val) => Len(log) = 0
        /\ IterEnded => (Len(log) = 0 <=> is_empty(val))

\* an ended iter() that gave one item for every table entry and the leftover
\* bits, fewer items than the value has bits
C28_Witness ==
    /\ IterEnded
    /\ Len(log) >= 3
    /\ Len(log) = Len(KNOWN_FLAGS(T)) + 1
    /\ Len(log) < PopCount(val)

-----------------------------------------------------------------------------
(* C29 *)

\* the error a trimmed segment gives when the parser does not take it
ErrorOf(seg) ==
    IF seg = << >> THEN "EmptyFlag"
    ELSE IF IsHexSegment(seg) THEN "InvalidHexFlag"
    ELSE "InvalidNamedFlag"

\* the value of a trimmed segment the parser takes: the digits of a hex
\* literal, or the first flag of the table with that name
ValueOf(seg) ==
    IF IsHexSegment(seg) THEN HexPattern(SubSeq(seg, 3, Len(seg)))
    ELSE FlagAt(CHOOSE k \in NameMatches(seg) : \A j \in NameMatches(seg) : k <= j).bits

RECURSIVE OrOfValues(_, _)
OrOfValues(segs, n) == IF n = 0 THEN 0 ELSE BitOr(OrOfValues(segs, n - 1), ValueOf(segs[n]))

\* what a parser of a mode returns for a text that is not blank
ExpectedResult(mode) ==
    LET segs == TrimmedSegments
        failing == { j \in 1..Len(segs) : ~SegAccepted(segs[j], mode) }
    IN  IF failing # {}
        THEN Err(ErrorOf(segs[CHOOSE j \in failing : \A k \in failing : j <= k]))
        ELSE Ok(IF mode = "truncate" THEN BitAnd(OrOfValues(segs, Len(segs)), all(T))
                ELSE OrOfValues(segs, Len(segs)))

ParseBy(mode, input) ==
    CASE mode = "retain" -> from_text(T, input)
      [] mode = "truncate" -> from_text_truncate(T, input)
      [] mode = "strict" -> from_text_strict(T, input)

Reverse(q) == [i \in 1..Len(q) |-> q[Len(q) + 1 - i]]

\* C29: each parser takes the segments from left to right and the first one
\* that fails gives the error (with a flag named A, "A || 0xg" gives
\* EmptyFlag; "0xg | |" gives InvalidHexFlag); an error carries no partly accumulated value; a success
\* is the OR of the values of all segments, the same with the segments in the
\* opposite order and with every segment given twice
C29_ErrorPrecedence ==
    (pc = "parsed" /\ ~Blank(text)) =>
        /\ res = ExpectedResult(parser)
        /\ ~res.ok => res = Err(res.err)
        /\ res.ok =>
              /\ ParseBy(parser, join(Reverse(split(text)), 1)) = res
              /\ ParseBy(parser, text \o <<"|">> \o text) = res
        /\ (text = <<"A", " ", "|", "|", " ", "0", "x", "g">> /\ NameMatches(<<"A">>) # {})
              => res = Err("EmptyFlag")
        /\ text = <<"0", "x", "g", " ", "|", " ", "|">> => res = Err("InvalidHexFlag")

\* "0xg | |" parsed by from_text: two failing segments, the error of the first
C29_Witness ==
    /\ Parsed("retain")
    /\ text = <<"0", "x", "g", " ", "|", " ", "|">>
    /\ ~SegAccepted(TrimmedSegments[1], "retain")
    /\ ~SegAccepted(TrimmedSegments[2], "retain")
    /\ res = Err("InvalidHexFlag")

-----------------------------------------------------------------------------
(* C30 *)

\* C30: a variant carrying #[default] is rejected with "`default` attribute
\* without `#[derive(Default)]`" exactly when Default is not among the derived
\* traits, whatever other traits (such as Debug) are derived; when it is
\* accepted the marked flag is the value of Default::default()
C30_DefaultNeedsDeriveDefault ==
    /\ Called("parse") =>
          /\ ~ret[1].ok <=> (arg.marked # 0 /\ "Default" \notin arg.derives)
          /\ ~ret[1].ok => ret[1].err = DefaultWithoutDerive
    /\ (Called("default") /\ arg.marked # 0) => ret[1] = FlagAt(arg.marked).bits

====
